---- MODULE Spec2Model ----
(***************************************************************************)
(* `reth dump-stage`: bin/reth/src/stage/dump/mod.rs.                      *)
(*                                                                         *)
(* One dump invocation: Command::execute dispatches on the stage           *)
(* sub-command to one stage routine; the routine calls setup(from, to,     *)
(* output_db, db_tool), which asserts from < to, creates the destination   *)
(* store, imports BlockBodyIndices over from-1 .. to+1 inside one          *)
(* destination write transaction, and reads the tip with a cursor's last().*)
(*                                                                         *)
(* u64 arithmetic is modelled at width Bits (TLC integers are 32 bit); an  *)
(* overflowing from - 1 or to + 1 either panics (overflow checks on) or    *)
(* wraps (overflow checks off), as the build decides.                      *)
(*                                                                         *)
(* Option<T> is modelled as a set with at most one element.                *)
(***************************************************************************)
EXTENDS Integers, FiniteSets, Sequences, TLC

VARIABLES
    source,     \* db_tool.db: the source store's BlockBodyIndices table
    destExists, \* whether init_db has created the destination store
    dest,       \* output_db: the destination's committed BlockBodyIndices
    txOpen,     \* the destination write transaction of output_db.update
    txWrites,   \* records appended in the open write transaction
    cursor,     \* the source cursor of the range walk (Option<key>)
    lower,      \* Some(from - 1) as computed
    upper,      \* to + 1 as computed
    from,       \* StageCommand.from
    to,         \* StageCommand.to
    stage,      \* the Stages variant of self.command
    dry_run,    \* StageCommand.dry_run
    pc,         \* position of the invocation
    tip,        \* tip_block_number returned by setup (Option<u64>)
    err,        \* the error or panic the invocation ended with
    ran,        \* the stage routines execute has called
    runs,       \* how often each step has run
    copied      \* how many records the range walk has appended

vars == <<source, destExists, dest, txOpen, txWrites, cursor, lower, upper,
          from, to, stage, dry_run, pc, tip, err, ran, runs, copied>>

----------------------------------------------------------------------------
(* Bounds *)

Bits == 7
MaxKey == 4
MaxBlock == 3

----------------------------------------------------------------------------
(* u64 *)

U64Max == 2^Bits - 1

U64 == 0..U64Max

WrappingSub1(n) == (n + U64Max) % (U64Max + 1)

WrappingAdd1(n) == (n + 1) % (U64Max + 1)

\* from - 1 or to + 1 leaves 0 ..= u64::MAX
Overflows(f, t) == f - 1 < 0 \/ t + 1 > U64Max

RangeValidLoose(f, t) == f <= t

RangeValid(f, t) == f < t

----------------------------------------------------------------------------
(* Tables: functions from the keys present to their values *)

EmptyTable == [k \in {} |-> "a"]

Keys(table) == DOMAIN table

Put(table, k, v) == [j \in Keys(table) \cup {k} |-> IF j = k THEN v ELSE table[j]]

Delete(table, k) == [j \in Keys(table) \ {k} |-> table[j]]

Merge(table, writes) ==
    [j \in Keys(table) \cup Keys(writes) |->
        IF j \in Keys(writes) THEN writes[j] ELSE table[j]]

Restrict(table, S) == [j \in Keys(table) \cap S |-> table[j]]

MinKey(S) == CHOOSE k \in S : \A j \in S : k <= j

MaxOf(S) == CHOOSE k \in S : \A j \in S : j <= k

\* cursor.seek / set_range: the first key >= k
SeekGE(table, k) ==
    LET S == {j \in Keys(table) : j >= k}
    IN  IF S = {} THEN {} ELSE {MinKey(S)}

\* cursor.next: the first key > k
NextKey(table, k) ==
    LET S == {j \in Keys(table) : j > k}
    IN  IF S = {} THEN {} ELSE {MinKey(S)}

FirstKey(table) == IF Keys(table) = {} THEN {} ELSE {MinKey(Keys(table))}

\* cursor.last(): the greatest key, None on an empty table
Last(table) == IF Keys(table) = {} THEN {} ELSE {MaxOf(Keys(table))}

\* the range walk is over lo <= key < hi
InRange(k, lo, hi) == lo <= k /\ k < hi

----------------------------------------------------------------------------
(* Inputs *)

Stages == {"Execution", "StorageHashing", "AccountHashing", "Merkle"}

Steps == {"routine", "init_db", "import", "commit", "view", "aux", "dry_run"}

Patterns == {"ab", "ba"}

ValueOf(k, p) == IF (k % 2 = 0) = (p = "ab") THEN "a" ELSE "b"

SmallSources ==
    {[k \in S |-> ValueOf(k, p)] : S \in SUBSET (0..MaxKey), p \in Patterns}

Blocks1To100 == [k \in 1..100 |-> ValueOf(k, "ab")]

InputBlocks == (0..MaxBlock) \cup {U64Max}

Scenarios == {<<10, 20>>, <<99, 100>>, <<50, 40>>}

----------------------------------------------------------------------------
(* State after the command line is parsed and before execute runs *)

Init ==
    /\ \/ /\ source \in SmallSources
          /\ from \in InputBlocks
          /\ to \in InputBlocks
       \/ /\ source = Blocks1To100
          /\ \E sc \in Scenarios : from = sc[1] /\ to = sc[2]
    /\ stage \in Stages
    /\ dry_run \in BOOLEAN
    /\ destExists = FALSE
    /\ dest = EmptyTable
    /\ txOpen = FALSE
    /\ txWrites = EmptyTable
    /\ cursor = {}
    /\ lower = 0
    /\ upper = 0
    /\ pc = "Idle"
    /\ tip = {}
    /\ err = "none"
    /\ ran = {}
    /\ runs = [s \in Steps |-> 0]
    /\ copied = 0

Ran(s) == [runs EXCEPT ![s] = @ + 1]

Fail(e) ==
    /\ pc' = "Failed"
    /\ err' = e

----------------------------------------------------------------------------
(* Command::execute *)

\* a match whose arms fall through to the arms below
ExecuteFallThrough ==
    /\ pc = "Idle"
    /\ pc' = "setup"
    /\ ran' = ran \cup {stage, "Merkle"}
    /\ runs' = [runs EXCEPT !["routine"] = @ + Cardinality({stage, "Merkle"})]
    /\ UNCHANGED <<source, destExists, dest, txOpen, txWrites, cursor, lower,
                   upper, from, to, stage, dry_run, tip, err, copied>>

\* match &self.command: the one routine of the stage, which calls setup first
Execute ==
    /\ pc = "Idle"
    /\ pc' = "setup"
    /\ ran' = ran \cup {stage}
    /\ runs' = Ran("routine")
    /\ UNCHANGED <<source, destExists, dest, txOpen, txWrites, cursor, lower,
                   upper, from, to, stage, dry_run, tip, err, copied>>

----------------------------------------------------------------------------
(* setup *)

\* assert!(from < to, ...)
SetupAssert ==
    /\ pc = "setup"
    /\ IF RangeValid(from, to)
          THEN pc' = "init_db" /\ err' = err
          ELSE Fail("InvalidRange")
    /\ UNCHANGED <<source, destExists, dest, txOpen, txWrites, cursor, lower,
                   upper, from, to, stage, dry_run, tip, ran, runs, copied>>

\* let output_db = init_db(output_db, None)?;
InitDb ==
    /\ pc = "init_db"
    /\ runs' = Ran("init_db")
    /\ \/ /\ destExists' = TRUE
          /\ dest' = EmptyTable
          /\ pc' = "update"
          /\ err' = err
       \/ /\ Fail("StoreCreationFailed")
          /\ UNCHANGED <<destExists, dest>>
    /\ UNCHANGED <<source, txOpen, txWrites, cursor, lower, upper, from, to,
                   stage, dry_run, tip, ran, copied>>

\* output_db.update(|tx| ...): the write transaction opens, then the closure
\* opens the source read transaction with db_tool.db.tx()?
UpdateBegin ==
    /\ pc = "update"
    /\ runs' = Ran("import")
    /\ \/ /\ txOpen' = TRUE
          /\ txWrites' = EmptyTable
          /\ pc' = "bounds"
          /\ err' = err
       \/ /\ Fail("CopyFailed")
          /\ UNCHANGED <<txOpen, txWrites>>
    /\ UNCHANGED <<source, destExists, dest, cursor, lower, upper, from, to,
                   stage, dry_run, tip, ran, copied>>

\* from - 1 or to + 1 overflows and the build checks overflow: panic, the
\* write transaction is dropped uncommitted
OverflowPanic ==
    /\ pc = "bounds"
    /\ Overflows(from, to)
    /\ Fail("ArithmeticOverflow")
    /\ txOpen' = FALSE
    /\ txWrites' = EmptyTable
    /\ UNCHANGED <<source, destExists, dest, cursor, lower, upper, from, to,
                   stage, dry_run, tip, ran, runs, copied>>

\* Some(from - 1), to + 1 (wrapping when the build does not check overflow),
\* then the source cursor is positioned at the first key of the range
ComputeBounds ==
    /\ pc = "bounds"
    /\ lower' = WrappingSub1(from)
    /\ upper' = WrappingAdd1(to)
    /\ cursor' = SeekGE(source, lower')
    /\ pc' = "import"
    /\ UNCHANGED <<source, destExists, dest, txOpen, txWrites, from, to, stage,
                   dry_run, tip, err, ran, runs, copied>>

\* a copy that removes the record from the table it reads
ImportMove ==
    /\ pc = "import"
    /\ \E k \in cursor :
          /\ InRange(k, lower, upper)
          /\ txWrites' = Put(txWrites, k, source[k])
          /\ cursor' = NextKey(source, k)
          /\ source' = Delete(source, k)
    /\ copied' = copied + 1
    /\ UNCHANGED <<destExists, dest, txOpen, lower, upper, from, to, stage,
                   dry_run, pc, tip, err, ran, runs>>

\* one record of the range walk: read at the source cursor, append to the
\* destination write transaction
ImportCopy ==
    /\ pc = "import"
    /\ \E k \in cursor :
          /\ InRange(k, lower, upper)
          /\ txWrites' = Put(txWrites, k, source[k])
          /\ cursor' = NextKey(source, k)
    /\ copied' = copied + 1
    /\ UNCHANGED <<source, destExists, dest, txOpen, lower, upper, from, to,
                   stage, dry_run, pc, tip, err, ran, runs>>

\* a failed import whose write transaction is committed all the same
ImportFailCommits ==
    /\ pc = "import"
    /\ Fail("CopyFailed")
    /\ dest' = Merge(dest, txWrites)
    /\ txOpen' = FALSE
    /\ txWrites' = EmptyTable
    /\ UNCHANGED <<source, destExists, cursor, lower, upper, from, to, stage,
                   dry_run, tip, ran, runs, copied>>

\* a source read or a destination write fails: the write transaction is
\* rolled back
ImportFail ==
    /\ pc = "import"
    /\ Fail("CopyFailed")
    /\ txOpen' = FALSE
    /\ txWrites' = EmptyTable
    /\ UNCHANGED <<source, destExists, dest, cursor, lower, upper, from, to,
                   stage, dry_run, tip, ran, runs, copied>>

\* the walk is past the range: the closure returns Ok and update commits
ImportCommit ==
    /\ pc = "import"
    /\ \A k \in cursor : ~InRange(k, lower, upper)
    /\ dest' = Merge(dest, txWrites)
    /\ txOpen' = FALSE
    /\ txWrites' = EmptyTable
    /\ runs' = Ran("commit")
    /\ pc' = "view"
    /\ UNCHANGED <<source, destExists, cursor, lower, upper, from, to, stage,
                   dry_run, tip, err, ran, copied>>

\* db_tool.db.view(|tx| tx.cursor_read::<BlockBodyIndices>()?.last())??
\*     .expect("some")
ViewTip ==
    /\ pc = "view"
    /\ runs' = Ran("view")
    /\ \/ /\ Last(source) # {}
          /\ tip' = Last(source)
          /\ pc' = "SliceBuilt"
          /\ err' = err
       \/ /\ Last(source) = {}
          /\ Fail("EmptySlice")
          /\ tip' = tip
       \/ /\ Fail("DatabaseError")
          /\ tip' = tip
    /\ UNCHANGED <<source, destExists, dest, txOpen, txWrites, cursor, lower,
                   upper, from, to, stage, dry_run, ran, copied>>

----------------------------------------------------------------------------
(* The stage routine after setup *)

\* the auxiliary tables the stage reads are imported into the destination
CopyAuxiliary ==
    /\ pc = "SliceBuilt"
    /\ runs' = Ran("aux")
    /\ \/ pc' = "AuxiliaryTablesCopied" /\ err' = err
       \/ Fail("CopyFailed")
    /\ UNCHANGED <<source, destExists, dest, txOpen, txWrites, cursor, lower,
                   upper, from, to, stage, dry_run, tip, ran, copied>>

\* if dry_run, the stage runs forward over the destination store
DryRun ==
    /\ pc = "AuxiliaryTablesCopied"
    /\ dry_run
    /\ runs' = Ran("dry_run")
    /\ \/ pc' = "DryRunExecuted" /\ err' = err
       \/ Fail("StageExecutionFailed")
    /\ UNCHANGED <<source, destExists, dest, txOpen, txWrites, cursor, lower,
                   upper, from, to, stage, dry_run, tip, ran, copied>>

\* Ok(())
Finish ==
    /\ \/ pc = "AuxiliaryTablesCopied" /\ ~dry_run
       \/ pc = "DryRunExecuted"
    /\ pc' = "Done"
    /\ UNCHANGED <<source, destExists, dest, txOpen, txWrites, cursor, lower,
                   upper, from, to, stage, dry_run, tip, err, ran, runs, copied>>

Next ==
    \/ Execute
    \/ SetupAssert
    \/ InitDb
    \/ UpdateBegin
    \/ OverflowPanic
    \/ ComputeBounds
    \/ ImportCopy
    \/ ImportFail
    \/ ImportCommit
    \/ ViewTip
    \/ CopyAuxiliary
    \/ DryRun
    \/ Finish

Spec == Init /\ [][Next]_vars

----------------------------------------------------------------------------
(* Properties *)

\* setup has returned Ok((output_db, tip_block_number))
SetupReturned == tip # {}

\* the keys of [from-1, to+1), as numbers
PaddedRange == {k \in U64 : from - 1 <= k /\ k < to + 1}

\* the keys of the range the import walked
ImportedRange == {k \in Keys(source) : InRange(k, lower, upper)}

\* C1: after setup returns successfully the destination BlockBodyIndices holds
\* exactly the source records with keys in [from-1, to+1), values unchanged
C1_DestIsPaddedRange ==
    SetupReturned => dest = Restrict(source, PaddedRange)

\* C2: the tip setup returns is a key of the destination BlockBodyIndices and
\* is its greatest key (stated for the ranges whose bounds do not overflow,
\* where it already fails)
C2_TipIsDestMax ==
    (SetupReturned /\ ~Overflows(from, to)) =>
        (\A t \in tip : t \in Keys(dest)) /\ tip = Last(dest)

C4_SourceNeverWritten == [][source' = source]_vars

C4_Witness == pc = "Done" /\ Keys(dest) # {} /\ dry_run

C6_NoSuccessOnEmptySlice ==
    (runs["view"] = 1 /\ Keys(dest) = {} /\ ~Overflows(from, to)) =>
        ~SetupReturned /\ err \in {"EmptySlice", "DatabaseError"}

\* C7: source blocks 1..100, from=10, to=20, dry_run=false: the destination
\* holds exactly blocks 9..21 and the tip is 21
C7_Scenario10To20 ==
    (source = Blocks1To100 /\ from = 10 /\ to = 20 /\ ~dry_run /\ pc = "Done") =>
        Keys(dest) = 9..21 /\ tip = {21}

\* C8: source blocks 1..100, from=99, to=100: the slice build does not fail on
\* the missing block 101, copies the records that exist and returns tip 100
C8_ClampedNearEnd ==
    (source = Blocks1To100 /\ from = 99 /\ to = 100) =>
        /\ err \notin {"InvalidRange", "EmptySlice", "ArithmeticOverflow"}
        /\ runs["commit"] = 1 => dest = Restrict(source, 98..100)
        /\ SetupReturned => tip = {100}

C8_Witness ==
    /\ source = Blocks1To100 /\ from = 99 /\ to = 100
    /\ pc = "Done"
    /\ tip = {100}
    /\ Keys(dest) = {98, 99, 100}

Phase(p) ==
    IF p \in {"Idle", "setup", "init_db", "update", "bounds", "import", "view"}
    THEN "Idle" ELSE p

PhaseOrder ==
    {<<"Idle", "Idle">>, <<"Idle", "SliceBuilt">>,
     <<"SliceBuilt", "AuxiliaryTablesCopied">>,
     <<"AuxiliaryTablesCopied", "DryRunExecuted">>,
     <<"AuxiliaryTablesCopied", "Done">>, <<"DryRunExecuted", "Done">>,
     <<"Idle", "Failed">>, <<"SliceBuilt", "Failed">>,
     <<"AuxiliaryTablesCopied", "Failed">>, <<"DryRunExecuted", "Failed">>}

StepsOnce ==
    /\ \A s \in Steps : runs[s] <= 1
    /\ pc # "Idle" => ran = {stage}
    /\ runs["import"] = 1 => destExists
    /\ runs["view"] = 1 => runs["commit"] = 1
    /\ runs["aux"] = 1 => SetupReturned
    /\ runs["dry_run"] = 1 => runs["aux"] = 1 /\ dry_run

\* C9: an invocation goes Idle -> SliceBuilt -> AuxiliaryTablesCopied ->
\* [DryRunExecuted] -> Done, runs the one routine of its stage and each step at
\* most once and in order; Failed is entered only from a non-terminal state and
\* nothing runs after it
C9_Lifecycle ==
    [][/\ <<Phase(pc), Phase(pc')>> \in PhaseOrder
       /\ StepsOnce']_vars

C9_Witness ==
    /\ pc = "Done"
    /\ dry_run
    /\ ran = {stage}
    /\ \A s \in Steps : runs[s] = 1

\* C10: for from < to the bounds from - 1 and to + 1 are computed without
\* underflow or overflow
C10_BoundsNoOverflow ==
    from < to =>
        /\ err # "ArithmeticOverflow"
        /\ pc = "import" => lower = from - 1 /\ upper = to + 1

====
